---------------------------- MODULE Spec2Model ----------------------------
(***************************************************************************)
(* The run loop of App<R> (src/src/lib.rs): App::new, with_exit_by_escape, *)
(* run, run_proc and dimensions, together with the collaborators the loop  *)
(* drives: the OS event queue, the window, the component tree's input      *)
(* tracker, the render backend and the GL context.                         *)
(***************************************************************************)
EXTENDS Integers, Sequences, FiniteSets, TLC

VARIABLES
    events_loop,     \* App.events_loop: "Some" or "None"
    width,           \* App.width
    height,          \* App.height
    exit_by_escape,  \* App.exit_by_escape
    background_color, \* App.background_color
    max_dimensions,  \* window_builder.window.max_dimensions given to App::new
    winSize,         \* the window's inner size, as get_inner_size reports it
    surface,         \* size of the drawing surface, set by window.resize
    viewport,        \* size last given to gl::Viewport (<<>> before any)
    lastInner,       \* last size get_inner_size answered (<<>> before any)
    pending,         \* OS events queued for the events loop
    emitted,         \* number of OS events produced so far
    pc,              \* position of the outermost run_proc invocation
    viaRun,          \* TRUE when the invocation came through run (hook = Continue)
    running,         \* local `running` of run_proc
    mouse,           \* position held by the local mouse_controller
    result,          \* value returned by the last outermost run/run_proc call
    innerResult,     \* value returned by a call made from inside the hook
    dispatched,      \* hit-test dispatches of the current invocation, in order
    frame,           \* steps the current iteration has performed, in order
    hookRet,         \* what the hook returned in the current iteration
    seen             \* what the events handled so far were (observation only)

host   == <<events_loop, width, height, exit_by_escape, max_dimensions,
            background_color>>
window == <<winSize, surface, viewport, lastInner>>
os     == <<pending, emitted>>
locals == <<pc, viaRun, running, mouse>>
outs   == <<result, innerResult, dispatched, frame, hookRet, seen>>
vars   == <<host, window, os, locals, outs>>

---------------------------------------------------------------------------
(* Bounds and value sets *)

MaxEvents == 3

Sizes       == { <<800, 600>>, <<640, 480>> }
Positions   == { <<10, 10>>, <<20, 5>> }
RenderCauses == { "backend_failure" }

\* Color::RGBA(0.8, 0.8, 0.8, 1.0), the colour App::new sets.
DefaultColor == << 8, 8, 8, 10 >>
Colors      == { DefaultColor, << 0, 0, 0, 10 >> }

None == << >>
Some(v) == << v >>

\* Events delivered by glutin's EventsLoop::poll_events.
Ev(kind, key, st, button, x, y) ==
    [kind |-> kind, key |-> key, st |-> st, button |-> button, x |-> x, y |-> y]

Closed          == Ev("Closed", "", "", "", 0, 0)
KeyboardInput(key, st) == Ev("KeyboardInput", key, st, "", 0, 0)
Resized(s)      == Ev("Resized", "", "", "", s[1], s[2])
CursorMoved(p)  == Ev("CursorMoved", "", "", "", p[1], p[2])
MouseInput(st, button) == Ev("MouseInput", "", st, button, 0, 0)
DeviceEvent     == Ev("DeviceEvent", "", "", "", 0, 0)

Events ==
    { Closed, DeviceEvent,
      KeyboardInput("Escape", "Pressed"), KeyboardInput("Escape", "Released"),
      KeyboardInput("A", "Pressed"),
      MouseInput("Pressed", "Left"), MouseInput("Released", "Left"),
      MouseInput("Pressed", "Right") }
    \cup { Resized(s) : s \in Sizes }
    \cup { CursorMoved(p) : p \in Positions }

Ok                 == << "Ok", "" >>
EventsLoopIsNone   == << "EventsLoopIsNone", "" >>
WindowNoLongerExists == << "WindowNoLongerExists", "" >>
ContextError       == << "ContextError", "" >>
RendererError(e)   == << "RendererError", e >>
NoResult           == << "none", "" >>

\* MouseInput::new(): the tracker's position before any update_pos.
DefaultPos == << 0, 0 >>

\* closed, escape, escapePressed, passResized, late (the last event handled
\* after one that asked for the exit): of the current poll pass; resized,
\* moved, clicks: of the current invocation; earlierMoved: an earlier
\* invocation handled a pointer move.
NoSeen == [closed |-> FALSE, escape |-> FALSE, escapePressed |-> FALSE,
           passResized |-> None, late |-> None,
           resized |-> None, moved |-> None, clicks |-> << >>,
           earlierMoved |-> FALSE]

---------------------------------------------------------------------------
(* App::new and the builder *)

\* Mutant of InitialDimensions: the hint is not read.
InitialDimensions_IgnoresHint(md) == << 0, 0 >>

InitialDimensions(md) == IF md = None THEN << 0, 0 >> ELSE md[1]

Init ==
    /\ events_loop = "Some"
    /\ max_dimensions \in { None } \cup { Some(s) : s \in Sizes }
    /\ width = InitialDimensions(max_dimensions)[1]
    /\ height = InitialDimensions(max_dimensions)[2]
    /\ exit_by_escape = TRUE
    /\ background_color = DefaultColor
    /\ winSize \in Sizes
    /\ surface = winSize
    /\ viewport = None
    /\ lastInner = None
    /\ pending = << >>
    /\ emitted = 0
    /\ pc = "idle"
    /\ viaRun = FALSE
    /\ running = TRUE
    /\ mouse = DefaultPos
    /\ result = NoResult
    /\ innerResult = NoResult
    /\ dispatched = << >>
    /\ frame = << >>
    /\ hookRet = "none"
    /\ seen = NoSeen

dimensions == << width, height >>

with_background_color(color) ==
    /\ pc = "idle"
    /\ background_color' = color
    /\ UNCHANGED <<events_loop, width, height, exit_by_escape, max_dimensions>>
    /\ UNCHANGED <<window, os, locals, outs>>

with_exit_by_escape(exit) ==
    /\ pc = "idle"
    /\ exit_by_escape' = exit
    /\ UNCHANGED <<events_loop, width, height, max_dimensions, background_color>>
    /\ UNCHANGED <<window, os, locals, outs>>

---------------------------------------------------------------------------
(* The operating system.  A resize changes the window's inner size at once *)
(* and queues its Resized event; any other event is produced at the moment  *)
(* the poll pass reaches it, which orders it freely among the queued ones.  *)

OsResize(s) ==
    /\ emitted < MaxEvents
    /\ emitted' = emitted + 1
    /\ pending' = Append(pending, Resized(s))
    /\ winSize' = s
    /\ UNCHANGED <<surface, viewport, lastInner>>
    /\ UNCHANGED <<host, locals, outs>>

---------------------------------------------------------------------------
(* run / run_proc: entry *)

\* Mutant of LeftInHost: the acquisition reads the event source without taking it.
LeftInHost_NotTaken == events_loop

\* mem::replace(&mut self.events_loop, None): what is left in the host.
LeftInHost == "None"

\* .ok_or(AppError::EventsLoopIsNone)?
Acquired(taken) == taken = "Some"

\* Mutant of TrackerAtEntry: the tracker outlives the invocation.
TrackerAtEntry_Kept == mouse

\* let mut mouse_controller = MouseInput::new(): the position it starts with.
TrackerAtEntry == DefaultPos

\* A call made while no invocation is active.  isRun: the call is run(comp),
\* whose hook is |_, _| AppState::Continue.
RunProcCall(isRun) ==
    /\ pc = "idle"
    /\ viaRun' = isRun
    /\ mouse' = TrackerAtEntry
    /\ events_loop' = LeftInHost
    /\ running' = TRUE
    /\ IF Acquired(events_loop)
          THEN pc' = "poll" /\ result' = NoResult
          ELSE pc' = "idle" /\ result' = EventsLoopIsNone
    /\ innerResult' = NoResult
    /\ dispatched' = << >>
    /\ frame' = << >>
    /\ hookRet' = "none"
    /\ seen' = [NoSeen EXCEPT
                   !.earlierMoved = seen.earlierMoved \/ seen.moved # None]
    /\ UNCHANGED <<width, height, exit_by_escape, max_dimensions, background_color>>
    /\ UNCHANGED <<window, os>>

---------------------------------------------------------------------------
(* run_proc: the poll pass *)

\* Mutant of ExitRequested: the Closed arm is missing.
ExitRequested_NoClosed(e) ==
    e.kind = "KeyboardInput" /\ e.key = "Escape" /\ exit_by_escape

\* Mutant of ExitRequested: the Escape arm has lost its guard.
ExitRequested_Unguarded(e) ==
    \/ e.kind = "Closed"
    \/ e.kind = "KeyboardInput" /\ e.key = "Escape"

\* The two arms that set running = false.
ExitRequested(e) ==
    \/ e.kind = "Closed"
    \/ e.kind = "KeyboardInput" /\ e.key = "Escape" /\ exit_by_escape

IsResized(e) == e.kind = "Resized"

\* Mutant of IsCursorMoved: the arm is taken only while running is true.
IsCursorMoved_OnlyWhileRunning(e) == e.kind = "CursorMoved" /\ running

IsCursorMoved(e) == e.kind = "CursorMoved"

\* Mutant of IsLeftPressed: the arm matches any pressed button.
IsLeftPressed_AnyButton(e) == e.kind = "MouseInput" /\ e.st = "Pressed"

IsLeftPressed(e) ==
    e.kind = "MouseInput" /\ e.st = "Pressed" /\ e.button = "Left"

\* mouse_controller.update_pos(x_pos, y_pos)
update_pos(e) == << e.x, e.y >>

\* mouse_controller.left_pressed_comp(comp): a hit-test at the tracked position.
left_pressed_comp(log, pos) == Append(log, pos)

\* Mutant of resize: the surface is not resized when the event is handled.
resize_Deferred(e) == surface

\* window.resize(w, h)
resize(e) == << e.x, e.y >>

\* What the handled event was, recorded beside the handler (observation only).
Observe(s, e) ==
    [closed  |-> s.closed \/ e.kind = "Closed",
     escape  |-> s.escape \/ (e.kind = "KeyboardInput" /\ e.key = "Escape"),
     escapePressed |->
         s.escapePressed \/ e = KeyboardInput("Escape", "Pressed"),
     passResized |->
         IF e.kind = "Resized" THEN Some(<< e.x, e.y >>) ELSE s.passResized,
     late |-> IF s.closed \/ (s.escape /\ exit_by_escape)
                 THEN Some(e) ELSE s.late,
     resized |-> IF e.kind = "Resized" THEN Some(<< e.x, e.y >>) ELSE s.resized,
     moved   |-> IF e.kind = "CursorMoved" THEN Some(<< e.x, e.y >>) ELSE s.moved,
     clicks  |-> IF e.kind = "MouseInput" /\ e.st = "Pressed" /\ e.button = "Left"
                    THEN Append(s.clicks,
                                IF s.moved = None THEN DefaultPos ELSE s.moved[1])
                    ELSE s.clicks,
     earlierMoved |-> s.earlierMoved]

\* The closure given to poll_events, applied to event e.
Handle(e) ==
    /\ running' = IF ExitRequested(e) THEN FALSE ELSE running
    /\ surface' = IF ~ExitRequested(e) /\ IsResized(e) THEN resize(e) ELSE surface
    /\ mouse' = IF ~ExitRequested(e) /\ IsCursorMoved(e)
                   THEN update_pos(e) ELSE mouse
    /\ dispatched' = IF ~ExitRequested(e) /\ IsLeftPressed(e)
                        THEN left_pressed_comp(dispatched, mouse)
                        ELSE dispatched
    /\ seen' = Observe(seen, e)
    /\ UNCHANGED <<host, winSize, viewport, lastInner, pc, viaRun>>
    /\ UNCHANGED <<result, innerResult, frame, hookRet>>

\* poll_events delivers the next queued event.
PollQueued ==
    /\ pc = "poll"
    /\ pending # << >>
    /\ pending' = Tail(pending)
    /\ UNCHANGED emitted
    /\ Handle(Head(pending))

\* poll_events delivers an event the OS has just produced.
PollFresh(e) ==
    /\ pc = "poll"
    /\ ~IsResized(e)
    /\ emitted < MaxEvents
    /\ emitted' = emitted + 1
    /\ UNCHANGED pending
    /\ Handle(e)

\* poll_events returns once the queue is empty.
PollDone ==
    /\ pc = "poll"
    /\ pending = << >>
    /\ frame' = Append(frame, "poll")
    /\ pc' = "check"
    /\ UNCHANGED <<host, window, os, viaRun, running, mouse>>
    /\ UNCHANGED <<result, innerResult, dispatched, hookRet, seen>>

\* Mutant of AfterExitCheck: a running loop goes straight to the hook.
AfterExitCheck_SkipsSetup(r) == IF ~r THEN "release" ELSE "hook"

\* Mutant of AfterExitCheck: the break is missing.
AfterExitCheck_NeverBreaks(r) == "setup"

\* if !running { break; }
AfterExitCheck(r) == IF ~r THEN "release" ELSE "setup"

ExitCheck ==
    /\ pc = "check"
    /\ frame' = Append(frame, "check")
    /\ pc' = AfterExitCheck(running)
    /\ UNCHANGED <<host, window, os, viaRun, running, mouse>>
    /\ UNCHANGED <<result, innerResult, dispatched, hookRet, seen>>

---------------------------------------------------------------------------
(* run_proc: frame setup, hook, notification, render, present *)

\* Mutant of StoredDimensions: the answer is dropped, the fields keep their values.
StoredDimensions_Kept(size) == << width, height >>

\* What self.width and self.height are set to from the answer (width, height).
StoredDimensions(size) == size

\* self.window.get_inner_size() answered Some((width, height)).
FrameSetupOk ==
    /\ pc = "setup"
    /\ lastInner' = Some(winSize)
    /\ width' = StoredDimensions(winSize)[1]
    /\ height' = StoredDimensions(winSize)[2]
    /\ viewport' = Some(<< width', height' >>)
    /\ frame' = Append(frame, "setup")
    /\ innerResult' = NoResult
    /\ pc' = "hook"
    /\ UNCHANGED <<events_loop, exit_by_escape, max_dimensions, background_color>>
    /\ UNCHANGED <<winSize, surface, os, viaRun, running, mouse>>
    /\ UNCHANGED <<result, dispatched, hookRet, seen>>

\* Mutant of AfterNoWindow: the missing size is ignored and the frame goes on.
AfterNoWindow_Ignored == "hook"

\* .ok_or(AppError::WindowNoLongerExists)?: where control goes on None.
AfterNoWindow == "idle"

\* self.window.get_inner_size() answered None: `?` returns the error.
FrameSetupFail ==
    /\ pc = "setup"
    /\ frame' = Append(frame, "setup_failed")
    /\ result' = IF AfterNoWindow = "idle" THEN WindowNoLongerExists ELSE result
    /\ pc' = AfterNoWindow
    /\ UNCHANGED <<host, window, os, viaRun, running, mouse>>
    /\ UNCHANGED <<innerResult, dispatched, hookRet, seen>>

\* The hook holds &mut App and calls run/run_proc on it again.  The inner
\* invocation has its own locals; it either fails at the acquisition or
\* acquires the event source and starts a loop of its own.
HookReenter ==
    /\ pc = "hook"
    /\ ~viaRun
    /\ events_loop' = LeftInHost
    /\ innerResult' = IF Acquired(events_loop)
                         THEN << "acquired", "" >>
                         ELSE EventsLoopIsNone
    /\ UNCHANGED <<width, height, exit_by_escape, max_dimensions, background_color>>
    /\ UNCHANGED <<window, os, locals>>
    /\ UNCHANGED <<result, dispatched, frame, hookRet, seen>>

HookReturns(isRun) == IF isRun THEN { "Continue" } ELSE { "Continue", "Exit" }

\* Mutant of AfterHook: the hook's answer is discarded.
AfterHook_Ignored(ret) == "notify"

\* if let AppState::Exit = proc(self, comp) { break; }
AfterHook(ret) == IF ret = "Exit" THEN "release" ELSE "notify"

HookReturn(ret) ==
    /\ pc = "hook"
    /\ ret \in HookReturns(viaRun)
    /\ hookRet' = ret
    /\ frame' = Append(frame, "hook")
    /\ pc' = AfterHook(ret)
    /\ UNCHANGED <<host, window, os, viaRun, running, mouse>>
    /\ UNCHANGED <<result, innerResult, dispatched, seen>>

\* comp.send_system(SystemMessage::FrameChange)
FrameNotify ==
    /\ pc = "notify"
    /\ frame' = Append(frame, "notify")
    /\ pc' = "render"
    /\ UNCHANGED <<host, window, os, viaRun, running, mouse>>
    /\ UNCHANGED <<result, innerResult, dispatched, hookRet, seen>>

\* Mutant of AfterNoDrawable: without a drawable view the frame is not presented.
AfterNoDrawable_SkipsSwap == "loop"

\* if let Some(node) = ... { ... }: where control goes when there is no node.
AfterNoDrawable == "swap"

\* comp.view_node_as_drawable_mut() is None.
RenderSkip ==
    /\ pc = "render"
    /\ pc' = AfterNoDrawable
    /\ UNCHANGED <<host, window, os, viaRun, running, mouse, outs>>

\* self.renderer.render(node) answered Ok.
RenderOk ==
    /\ pc = "render"
    /\ frame' = Append(frame, "render")
    /\ pc' = "swap"
    /\ UNCHANGED <<host, window, os, viaRun, running, mouse>>
    /\ UNCHANGED <<result, innerResult, dispatched, hookRet, seen>>

\* Mutant of AfterFailure: the error is dropped and the loop goes on.
AfterFailure_Swallowed == "loop"

\* Where control goes when render or swap_buffers answers an error.
AfterFailure == "idle"

\* self.renderer.render(node) answered Err(e).
RenderFail(e) ==
    /\ pc = "render"
    /\ frame' = Append(frame, "render_failed")
    /\ result' = IF AfterFailure = "idle" THEN RendererError(e) ELSE result
    /\ pc' = AfterFailure
    /\ UNCHANGED <<host, window, os, viaRun, running, mouse>>
    /\ UNCHANGED <<innerResult, dispatched, hookRet, seen>>

\* self.window.swap_buffers() answered Ok.
SwapOk ==
    /\ pc = "swap"
    /\ frame' = Append(frame, "swap")
    /\ pc' = "loop"
    /\ UNCHANGED <<host, window, os, viaRun, running, mouse>>
    /\ UNCHANGED <<result, innerResult, dispatched, hookRet, seen>>

\* self.window.swap_buffers() answered Err.
SwapFail ==
    /\ pc = "swap"
    /\ frame' = Append(frame, "swap_failed")
    /\ result' = IF AfterFailure = "idle" THEN ContextError ELSE result
    /\ pc' = AfterFailure
    /\ UNCHANGED <<host, window, os, viaRun, running, mouse>>
    /\ UNCHANGED <<innerResult, dispatched, hookRet, seen>>

\* End of the loop body: the next iteration begins.
LoopTop ==
    /\ pc = "loop"
    /\ pc' = "poll"
    /\ frame' = << >>
    /\ hookRet' = "none"
    /\ seen' = [seen EXCEPT !.closed = FALSE, !.escape = FALSE,
                             !.escapePressed = FALSE, !.passResized = None,
                             !.late = None]
    /\ UNCHANGED <<host, window, os, viaRun, running, mouse>>
    /\ UNCHANGED <<result, innerResult, dispatched>>

\* Mutant of RestoredOnBreak: the event source is not put back.
RestoredOnBreak_Forgotten == "None"

\* mem::replace(&mut self.events_loop, Some(events_loop)): what the host holds
\* after the loop was left by break.
RestoredOnBreak == "Some"

\* After the loop: hand the event source back and return Ok(()).
Release ==
    /\ pc = "release"
    /\ events_loop' = RestoredOnBreak
    /\ result' = Ok
    /\ pc' = "idle"
    /\ UNCHANGED <<width, height, exit_by_escape, max_dimensions, background_color>>
    /\ UNCHANGED <<window, os, viaRun, running, mouse>>
    /\ UNCHANGED <<innerResult, dispatched, frame, hookRet, seen>>

---------------------------------------------------------------------------

Next ==
    \/ \E exit \in BOOLEAN : with_exit_by_escape(exit)
    \/ \E color \in Colors : with_background_color(color)
    \/ \E s \in Sizes : OsResize(s)
    \/ \E isRun \in BOOLEAN : RunProcCall(isRun)
    \/ PollQueued
    \/ \E e \in Events : PollFresh(e)
    \/ PollDone
    \/ ExitCheck
    \/ FrameSetupOk
    \/ FrameSetupFail
    \/ HookReenter
    \/ \E ret \in { "Continue", "Exit" } : HookReturn(ret)
    \/ FrameNotify
    \/ RenderSkip
    \/ RenderOk
    \/ \E e \in RenderCauses : RenderFail(e)
    \/ SwapOk
    \/ SwapFail
    \/ LoopTop
    \/ Release

Spec == Init /\ [][Next]_vars

---------------------------------------------------------------------------
(* Collaborators that never fail, and a loop that keeps taking its steps:   *)
(* run_proc is sequential code, so while an invocation is active its next   *)
(* step is eventually taken, every poll pass, hook call, render and swap    *)
(* returning.  Events arrive or not as the OS pleases.                      *)

NextNoFail ==
    \/ \E exit \in BOOLEAN : with_exit_by_escape(exit)
    \/ \E color \in Colors : with_background_color(color)
    \/ \E s \in Sizes : OsResize(s)
    \/ \E isRun \in BOOLEAN : RunProcCall(isRun)
    \/ PollQueued
    \/ \E e \in Events : PollFresh(e)
    \/ PollDone
    \/ ExitCheck
    \/ FrameSetupOk
    \/ HookReenter
    \/ \E ret \in { "Continue", "Exit" } : HookReturn(ret)
    \/ FrameNotify
    \/ RenderSkip
    \/ RenderOk
    \/ SwapOk
    \/ LoopTop
    \/ Release

LoopStep ==
    \/ PollQueued
    \/ PollDone
    \/ ExitCheck
    \/ FrameSetupOk
    \/ \E ret \in { "Continue", "Exit" } : HookReturn(ret)
    \/ FrameNotify
    \/ RenderSkip
    \/ RenderOk
    \/ SwapOk
    \/ LoopTop
    \/ Release

SpecNoFail == Init /\ [][NextNoFail]_vars /\ WF_vars(LoopStep)

---------------------------------------------------------------------------
(* The scenario of one run(comp) call on a fresh host, exit_by_escape true,  *)
(* collaborators that do not fail, and the event stream resize(w, h),        *)
(* pointer-move(x, y), left press, close; the pass each event falls in is    *)
(* left open.                                                                *)

Scenario(s, p) ==
    << Resized(s), CursorMoved(p), MouseInput("Pressed", "Left"), Closed >>

ScenarioResize(s) ==
    /\ emitted = 0
    /\ OsResize(s)

ScenarioDeliver(p) ==
    /\ pc = "poll"
    /\ pending = << >>
    /\ emitted \in 1 .. (Len(Scenario(winSize, p)) - 1)
    /\ emitted' = emitted + 1
    /\ UNCHANGED pending
    /\ Handle(Scenario(winSize, p)[emitted + 1])

NextScenario ==
    \/ \E s \in Sizes : ScenarioResize(s)
    \/ RunProcCall(TRUE)
    \/ PollQueued
    \/ \E p \in Positions : ScenarioDeliver(p)
    \/ PollDone
    \/ ExitCheck
    \/ FrameSetupOk
    \/ HookReturn("Continue")
    \/ FrameNotify
    \/ RenderSkip
    \/ RenderOk
    \/ SwapOk
    \/ LoopTop
    \/ Release

SpecScenario == Init /\ [][NextScenario]_vars

---------------------------------------------------------------------------
(* Properties *)

Returned == pc = "idle" /\ result # NoResult

EscapeEvents ==
    { KeyboardInput("Escape", "Pressed"), KeyboardInput("Escape", "Released") }

\* Frame logs of an iteration that is left at the exit check.
ExitingFrames == { << >>, << "poll" >>, << "poll", "check" >> }

\* C1: whenever no invocation is active (before a public call and after it has
\* returned, with success or with any error) the host holds the event source.
C1_EventSourcePresentBetweenCalls ==
    pc = "idle" => events_loop = "Some"

\* C2: a call made from inside the hook while the outer invocation is active
\* returns EventsLoopIsNone and changes nothing else (no poll, hook, render or
\* present; width, height, exit_by_escape and the host's event source field
\* untouched); the outer invocation holds the source throughout, and a call
\* made after it returned Ok acquires the source and enters the loop.
C2_ReentrantCallFailsFast ==
    /\ [](pc # "idle" => events_loop = "None")
    /\ [][ /\ HookReenter =>
                /\ innerResult' = EventsLoopIsNone
                /\ UNCHANGED <<host, window, os, locals>>
                /\ UNCHANGED <<result, dispatched, frame, hookRet, seen>>
           /\ (result = Ok /\ \E isRun \in BOOLEAN : RunProcCall(isRun)) =>
                pc' = "poll"
         ]_vars

C2_Witness ==
    /\ Returned
    /\ result = Ok
    /\ innerResult = EventsLoopIsNone
    /\ events_loop = "Some"

\* C3: once a poll pass has handled a Closed event the iteration does nothing
\* but finish the pass, take the exit check and return Ok: no frame setup, no
\* hook, no frame notification, no render, no swap.
C3_CloseEndsLoopInSameIteration ==
    seen.closed =>
        /\ ~running
        /\ pc \in { "poll", "check", "release", "idle" }
        /\ frame \in ExitingFrames
        /\ pc = "idle" => result = Ok

C3_Witness ==
    /\ Returned
    /\ seen.closed
    /\ result = Ok

\* C4: an Escape key event handled while exit_by_escape is true ends the loop
\* as a Closed event does; while exit_by_escape is false handling it changes
\* nothing, and a pass that handled only such events goes on to frame setup.
C4_EscapeExitsOnlyWhenEnabled ==
    /\ []((pc # "idle" /\ seen.escape /\ exit_by_escape) =>
            /\ ~running
            /\ pc \in { "poll", "check", "release" }
            /\ frame \in ExitingFrames)
    /\ []((pc # "idle" /\ seen.escape /\ ~exit_by_escape /\ ~seen.closed) =>
            running)
    /\ [][ /\ (pc = "release" /\ pc' = "idle") => result' = Ok
           /\ ((\E e \in EscapeEvents : PollFresh(e)) /\ ~exit_by_escape) =>
                UNCHANGED <<host, window, pending, locals, result,
                            innerResult, dispatched, frame, hookRet>>
           /\ (pc = "check" /\ pc' # "check" /\ running) => pc' = "setup"
         ]_vars

C4_Witness ==
    /\ Returned
    /\ result = Ok
    /\ seen.escape
    /\ ~seen.closed
    /\ hookRet = "none"

\* C5: when the hook returns Exit the iteration sends no frame notification,
\* makes no render call and no swap, no further iteration starts, and run_proc
\* returns Ok.
C5_HookExitSkipsRenderAndPresent ==
    hookRet = "Exit" =>
        /\ pc \in { "release", "idle" }
        /\ frame = << "poll", "check", "setup", "hook" >>
        /\ pc = "idle" => result = Ok

C5_Witness ==
    /\ Returned
    /\ hookRet = "Exit"
    /\ result = Ok
    /\ innerResult = NoResult

\* C6: a failed render call or a failed swap is the last step of its
\* invocation: run_proc has returned RendererError (with the backend's cause),
\* respectively ContextError; a failed render is not followed by a swap, and
\* the failed operation was attempted once.
C6_RenderOrSwapFailureIsFatal ==
    /\ (\E i \in 1..Len(frame) : frame[i] = "render_failed") =>
          /\ pc = "idle"
          /\ result \in { RendererError(e) : e \in RenderCauses }
          /\ frame = << "poll", "check", "setup", "hook", "notify",
                        "render_failed" >>
    /\ (\E i \in 1..Len(frame) : frame[i] = "swap_failed") =>
          /\ pc = "idle"
          /\ result = ContextError
          /\ frame \in { << "poll", "check", "setup", "hook", "notify",
                            "render", "swap_failed" >>,
                         << "poll", "check", "setup", "hook", "notify",
                            "swap_failed" >> }

C6_Witness ==
    /\ Returned
    /\ result \in { RendererError(e) : e \in RenderCauses }
    /\ frame[Len(frame)] = "render_failed"

\* C7 as stated: when an iteration that handled a resize ends (by reaching the
\* end of the loop body or by returning) and the window still exists and has
\* that size, dimensions() is that size.
C7_DimensionsFollowLastResize ==
    ( /\ pc \in { "loop", "idle" }
      /\ result # WindowNoLongerExists
      /\ seen.passResized # None
      /\ pending = << >>
      /\ seen.passResized[1] = winSize )
    => dimensions = winSize

\* C7 amended: dimensions() is the size answered by the most recent successful
\* window-size query of frame setup, in this or an earlier iteration or
\* invocation, and the value of construction before any such query.
C7_DimensionsAreLastQueriedSize ==
    dimensions =
        IF lastInner = None THEN InitialDimensions(max_dimensions)
                            ELSE lastInner[1]

C7_Witness ==
    /\ Returned
    /\ seen.passResized # None
    /\ lastInner # None
    /\ lastInner[1] # seen.passResized[1]
    /\ dimensions = lastInner[1]

\* C8 as stated: in the scenario, once run has returned it returned Ok, made
\* exactly one hit-test dispatch, at (x, y), and dimensions() is (w, h).
C8_ScenarioEndsWithResizedDimensions ==
    Returned =>
        /\ result = Ok
        /\ dispatched = << seen.moved[1] >>
        /\ dimensions = seen.resized[1]

\* C8 amended: in the scenario, once run has returned it returned Ok and made
\* exactly one hit-test dispatch, at (x, y); dimensions() is (w, h) when close
\* was handled in a later poll pass than the resize, and otherwise is the size
\* stored by the last frame setup before that pass (the value of construction
\* when there was none).
C8_ScenarioDimensionsNeedLaterPass ==
    Returned =>
        /\ result = Ok
        /\ dispatched = << seen.moved[1] >>
        /\ seen.passResized = None => dimensions = seen.resized[1]
        /\ seen.passResized # None =>
              dimensions = IF lastInner = None
                              THEN InitialDimensions(max_dimensions)
                              ELSE lastInner[1]

C8_Witness ==
    /\ Returned
    /\ result = Ok
    /\ seen.closed
    /\ seen.passResized = None
    /\ seen.resized # None
    /\ dimensions = seen.resized[1]
    /\ dimensions # InitialDimensions(max_dimensions)
    /\ Len(dispatched) = 1
    /\ dispatched[1] \in Positions

\* C9: the hit-test dispatches of an invocation are exactly one per left-button
\* press handled, in order, each at the position of the latest pointer move
\* handled before it, or at the tracker's default position when there was none.
C9_OneDispatchPerLeftPress ==
    dispatched = seen.clicks

C9_Witness ==
    /\ Len(dispatched) = 2
    /\ dispatched[1] = DefaultPos
    /\ dispatched[2] \in Positions

\* C10: after run_proc returned Ok (the loop was left by break) the host holds
\* the event source, and the next call does not fail with EventsLoopIsNone.
C10_EventSourceReturnedOnBreak ==
    /\ []((pc = "idle" /\ result = Ok) => events_loop = "Some")
    /\ [][ (result = Ok /\ \E isRun \in BOOLEAN : RunProcCall(isRun)) =>
               result' # EventsLoopIsNone ]_vars

C10_Witness ==
    /\ Returned
    /\ result = Ok
    /\ hookRet = "Exit"
    /\ events_loop = "Some"
    /\ Acquired(events_loop)

\* C11: a failed window-size query is the last step of its invocation: run_proc
\* has returned WindowNoLongerExists, the iteration ran no hook, no frame
\* notification, no render and no swap, and the failing step left width,
\* height and the viewport as they were.
C11_MissingWindowIsFatal ==
    /\ []((\E i \in 1..Len(frame) : frame[i] = "setup_failed") =>
            /\ pc = "idle"
            /\ result = WindowNoLongerExists
            /\ frame = << "poll", "check", "setup_failed" >>
            /\ hookRet = "none")
    /\ [][FrameSetupFail => UNCHANGED <<width, height, viewport>>]_vars

C11_Witness ==
    /\ Returned
    /\ result = WindowNoLongerExists
    /\ lastInner # None
    /\ dimensions = lastInner[1]
    /\ winSize # dimensions

\* The frame log of an iteration that ran to completion; the render step makes
\* its render call when the tree exposes a drawable view.
CompleteFrames ==
    { << "poll", "check", "setup", "hook", "notify", "render", "swap" >>,
      << "poll", "check", "setup", "hook", "notify", "swap" >> }

IsPrefix(s, u) == Len(s) <= Len(u) /\ s = SubSeq(u, 1, Len(s))

\* C12: an iteration that ran to completion performed, once each and in this
\* order, the poll pass, the exit check, the window-size query with
\* viewport/clear, the hook, the frame notification, the render step and the
\* swap; at every moment the steps done so far are an initial part of that
\* order, so a swap is preceded by that iteration's poll pass and hook, and
\* the hook is invoked at most once per iteration.
C12_StepsInOrderOncePerIteration ==
    /\ pc = "loop" => frame \in CompleteFrames
    /\ (\E i \in 1..Len(frame) : frame[i] = "swap") =>
          /\ pc = "loop"
          /\ frame \in CompleteFrames
    /\ \/ \E f \in CompleteFrames : IsPrefix(frame, f)
       \/ frame[Len(frame)] \in { "setup_failed", "render_failed", "swap_failed" }
          /\ \E f \in CompleteFrames :
                IsPrefix(SubSeq(frame, 1, Len(frame) - 1), f)

C12_Witness ==
    /\ pc = "loop"
    /\ frame = << "poll", "check", "setup", "hook", "notify", "render", "swap" >>
    /\ hookRet = "Continue"

\* C13: within an invocation running is false only when the current poll pass
\* has handled a Closed event, or an Escape key press while exit_by_escape is
\* true; no other event (an Escape key release among them) makes it false.
C13_OnlyCloseOrEscapePressExits ==
    (pc # "idle" /\ ~running) =>
        \/ seen.closed
        \/ seen.escapePressed /\ exit_by_escape

\* C14: as soon as a poll pass has handled a Resized(w, h) event the drawing
\* surface has size (w, h) of the latest one handled, so it has it through the
\* exit check, the window-size query and the viewport configuration of that
\* iteration; nothing of a handled resize is left for a later iteration.
C14_ResizeAppliedWhenHandled ==
    /\ seen.passResized # None => surface = seen.passResized[1]
    /\ seen.resized # None => surface = seen.resized[1]

C14_Witness ==
    /\ pc = "hook"
    /\ frame = << "poll", "check", "setup" >>
    /\ seen.passResized # None
    /\ surface = seen.passResized[1]
    /\ viewport = Some(surface)
    /\ pending = << >>

\* C15: an iteration in which the tree exposed no drawable view (no render call
\* after the frame notification) is not ended by that: no error is returned,
\* the notification has been sent, the swap is made next and the iteration
\* runs to its end, from where the next one starts.
C15_NoDrawableSkipsRenderOnly ==
    /\ (pc = "swap" /\ frame[Len(frame)] # "render") =>
          /\ frame = << "poll", "check", "setup", "hook", "notify" >>
          /\ result = NoResult
    /\ (pc = "loop" /\ \A i \in 1..Len(frame) : frame[i] # "render") =>
          /\ frame = << "poll", "check", "setup", "hook", "notify", "swap" >>
          /\ result = NoResult
          /\ events_loop = "None"

C15_Witness ==
    /\ pc = "loop"
    /\ frame = << "poll", "check", "setup", "hook", "notify", "swap" >>
    /\ result = NoResult

\* What ends the loop: a Closed event or an Escape key event with
\* exit_by_escape true handled in the current pass, or the hook returning Exit.
ExitCause ==
    \/ seen.closed
    \/ seen.escape /\ exit_by_escape
    \/ hookRet = "Exit"

\* C16: with collaborators that never fail, run_proc returns only Ok and leaves
\* its loop only when the current pass handled a Closed event or an Escape key
\* event with exit_by_escape true, or the hook returned Exit (never the last
\* for run); and once one of these has happened in an active invocation,
\* run_proc eventually returns Ok.
C16_ReturnsOnlyAndEventuallyOnExitCause ==
    /\ [](Returned => result = Ok)
    /\ [](pc = "release" => ExitCause /\ (viaRun => hookRet # "Exit"))
    /\ (pc # "idle" /\ ExitCause) ~> (pc = "idle" /\ result = Ok)

C16_Witness ==
    /\ Returned
    /\ result = Ok
    /\ viaRun
    /\ seen.escape
    /\ ~seen.closed
    /\ lastInner # None

\* C17: an event handled in a poll pass after a Closed or enabled Escape event
\* of that pass is applied like any other (a resize has resized the surface, a
\* pointer move has set the tracked position, a left press has dispatched a
\* hit-test at the tracked position), and running stays false.
C17_EventsAfterExitRequestStillApplied ==
    seen.late # None =>
        LET e == seen.late[1] IN
        /\ ~running
        /\ pc \in { "poll", "check", "release", "idle" }
        /\ e.kind = "Resized" => surface = << e.x, e.y >>
        /\ e.kind = "CursorMoved" => mouse = << e.x, e.y >>
        /\ e = MouseInput("Pressed", "Left") =>
              /\ dispatched # << >>
              /\ dispatched[Len(dispatched)] = mouse

C17_Witness ==
    /\ Returned
    /\ result = Ok
    /\ seen.closed
    /\ seen.late # None
    /\ seen.late[1].kind = "CursorMoved"
    /\ mouse = << seen.late[1].x, seen.late[1].y >>

\* C18: the tracked position is the position of the latest pointer move of the
\* current invocation, across its iterations, and the default position when
\* the invocation has handled none, whatever earlier invocations tracked; so
\* the presses an invocation handles before its first move are dispatched at
\* the default position.
C18_PointerPositionIsPerInvocation ==
    /\ mouse = IF seen.moved = None THEN DefaultPos ELSE seen.moved[1]
    /\ seen.moved = None =>
          \A i \in 1..Len(dispatched) : dispatched[i] = DefaultPos

C18_Witness ==
    /\ seen.earlierMoved
    /\ seen.moved = None
    /\ dispatched = << DefaultPos >>

\* C19: until the first successful window-size query dimensions() is the
\* maximum-dimensions hint given at construction, (0, 0) when none was given;
\* of an invocation's steps only frame setup writes width and height, and none
\* writes exit_by_escape or background_color: the poll pass with its resize
\* events, the exit check, the hook's return, the frame notification, render
\* and present leave all four unchanged.
C19_OnlyFrameSetupWritesDimensions ==
    /\ [](lastInner = None =>
            dimensions = IF max_dimensions = None THEN << 0, 0 >>
                                                  ELSE max_dimensions[1])
    /\ [][ /\ pc # "setup" => UNCHANGED <<width, height>>
           /\ pc # "idle" => UNCHANGED <<exit_by_escape, background_color>>
         ]_vars

C19_Witness ==
    /\ pc = "check"
    /\ seen.passResized # None
    /\ lastInner = None
    /\ max_dimensions # None
    /\ dimensions = max_dimensions[1]
    /\ dimensions # seen.passResized[1]

===========================================================================
